---- MODULE Spec2Model ----
(***************************************************************************)
(* Model of the pptx report generator (Solution/main.py).                  *)
(*                                                                         *)
(* One process execution is: main parses argv (validate_json_file is the   *)
(* argparse type of the single positional argument), generate_presentation *)
(* loads the JSON configuration, creates an empty presentation, dispatches *)
(* every slide descriptor in order to a renderer and saves output.pptx.    *)
(* The file system (the configuration file, the picture file, sample.dat,  *)
(* output.pptx and the log file) outlives a process; the program is        *)
(* executed twice on the same files so that two runs can be compared.      *)
(***************************************************************************)
EXTENDS Integers, Sequences, FiniteSets, TLC

VARIABLES
    argv,        \* command line: a sequence of 0 or 1 paths (a path is a sequence of characters)
    env,         \* the files the program reads: the configuration, the picture, sample.dat
    run,         \* which execution of the program this is (1 or 2)
    pc,          \* position of the process
    config_file, \* args.config_file, the value validate_json_file returned
    config,      \* the parsed configuration (json.load)
    next,        \* index of the descriptor the for loop handles next
    slides,      \* presentation.slides
    err,         \* the exception in flight (NoError when none)
    log,         \* pptx_generator.log, appended to by every run
    trace,       \* functions called by this process, in call order
    outputFile,  \* output.pptx on disk
    firstRun     \* how the first execution ended (recorded when the second starts)

vars == <<argv, env, run, pc, config_file, config, next, slides, err, log, trace,
          outputFile, firstRun>>

-----------------------------------------------------------------------------
(* Bounds of the model *)

MaxSlides == 2
MaxDelta == 1

-----------------------------------------------------------------------------
(* Strings: a path is a sequence of one-character strings *)

LowerChar(c) ==
    CASE c = "J" -> "j"
      [] c = "S" -> "s"
      [] c = "O" -> "o"
      [] c = "N" -> "n"
      [] c = "A" -> "a"
      [] OTHER -> c

lower(s) == [k \in 1..Len(s) |-> LowerChar(s[k])]

endswith(s, suffix) ==
    /\ Len(s) >= Len(suffix)
    /\ SubSeq(s, Len(s) - Len(suffix) + 1, Len(s)) = suffix

DotJson == <<".", "j", "s", "o", "n">>

Paths ==
    { <<"a", ".", "j", "s", "o", "n">>,
      <<"A", ".", "J", "S", "O", "N">>,
      <<"a", ".", "J", "s", "o", "n">>,
      <<"a", ".", "t", "x", "t">>,
      <<"j", "s", "o", "n">>,
      <<"a", ".", "j", "s", "o", "n", "x">>,
      <<"a", "j", "s", "o", "n">> }

-----------------------------------------------------------------------------
(* Exceptions and log lines *)

NoError == [type |-> "none", origin |-> "none"]

Exc(type, origin) == [type |-> type, origin |-> origin]

LogInfo(fn) == [level |-> "INFO", fn |-> fn, e |-> NoError]

LogError(fn, e) == [level |-> "ERROR", fn |-> fn, e |-> e]

-----------------------------------------------------------------------------
(* The document: slides, text frames, pictures *)

SlideWidth == 9144000
SlideHeight == 6858000

\* figsize=(6, 4.5) inches, 914400 EMU to the inch
PlotImageWidth == 5486400
PlotImageHeight == 4114800

EmptyParagraph == [text |-> "", level |-> 0]

\* The text frame of a placeholder of a new slide holds one empty paragraph.
NewTextFrame == <<EmptyParagraph>>

add_slide(ss, layout, by) ==
    Append(ss, [layout |-> layout,
                by |-> by,
                title |-> "",
                body |-> IF layout \in {0, 1} THEN NewTextFrame ELSE <<>>,
                pictures |-> <<>>])

SetTitle(ss, title) == [ss EXCEPT ![Len(ss)].title = title]

\* placeholder.text = content replaces the frame's text by one paragraph
SetPlaceholderText(ss, content) ==
    [ss EXCEPT ![Len(ss)].body = <<[text |-> content, level |-> 0]>>]

add_paragraph(ss, text, level) ==
    [ss EXCEPT ![Len(ss)].body = Append(@, [text |-> text, level |-> level])]

Center_truncating(outer, inner) ==
    IF outer - inner < 0 THEN 0 - ((inner - outer) \div 2) ELSE (outer - inner) \div 2

\* (slide_width - picture_width) // 2 : Python floor division
Center(outer, inner) == (outer - inner) \div 2

-----------------------------------------------------------------------------
(* Slide descriptors of the configuration *)

Missing == "<missing>"     \* the key is absent from the JSON object
Number == "<number>"       \* the value is a JSON number, not a string

Item(isdict, hasLevel, hasText, level, text) ==
    [isdict |-> isdict, hasLevel |-> hasLevel, hasText |-> hasText,
     level |-> level, text |-> text]

ItemA == Item(TRUE, TRUE, TRUE, 0, "A")
ItemB == Item(TRUE, TRUE, TRUE, 1, "B")
ItemNoLevel == Item(TRUE, FALSE, TRUE, 0, "C")
ItemNoText == Item(TRUE, TRUE, FALSE, 1, "")
ItemNotDict == Item(FALSE, FALSE, FALSE, 0, "")

Desc(type, title, items, hasLabels) ==
    [type |-> type, title |-> title, items |-> items, hasLabels |-> hasLabels]

Descriptors ==
    { Desc("title", "T", <<>>, FALSE),
      Desc("text", "T", <<>>, FALSE),
      Desc("list", "T", <<ItemA, ItemB>>, FALSE),
      Desc("list", "T", <<ItemA, ItemNoText, ItemB>>, FALSE),
      Desc("list", "T", <<ItemNotDict, ItemA>>, FALSE),
      Desc("list", "T", <<ItemB, ItemNoLevel>>, FALSE),
      Desc("list", Number, <<ItemA>>, FALSE),
      Desc("picture", "T", <<>>, FALSE),
      Desc("plot", "T", <<>>, TRUE),
      Desc("plot", "T", <<>>, FALSE),
      Desc("plot", Number, <<>>, TRUE),
      Desc("foo", "T", <<>>, FALSE),
      Desc("foo", Missing, <<>>, FALSE),
      Desc(Missing, "T", <<>>, FALSE) }

SlideLists == UNION { [1..n -> Descriptors] : n \in 0..MaxSlides }

Cfg(kind, hasKey, presentation) ==
    [kind |-> kind, hasKey |-> hasKey, presentation |-> presentation]

NoConfig == Cfg("none", FALSE, <<>>)

\* What the configuration file can hold: text that is no JSON, a JSON array,
\* a JSON object without the key, a JSON object with the key.
Contents ==
    { Cfg("notjson", FALSE, <<>>), Cfg("array", FALSE, <<>>), Cfg("object", FALSE, <<>>) }
    \cup { Cfg("object", TRUE, p) : p \in SlideLists }

-----------------------------------------------------------------------------
(* Files.  The content of a file is fixed the first time a run reads it   *)
(* ("unread" until then); every later read sees the same content.          *)

Image(state, w, h) == [state |-> state, width |-> w, height |-> h]

UnreadImage == Image("unread", 0, 0)

PlotImage == Image("image", PlotImageWidth, PlotImageHeight)

PictureFiles ==
    { Image("missing", 0, 0), Image("image", 4000000, 3000000) }
    \cup { Image("image", SlideWidth + d, SlideHeight - d) : d \in (0 - MaxDelta)..MaxDelta }

ReadContent == IF env.content.kind = "unread" THEN Contents ELSE {env.content}

ReadPicture == IF env.picture = UnreadImage THEN PictureFiles ELSE {env.picture}

ReadSample == IF env.sample = "unread" THEN {"ok", "bad"} ELSE {env.sample}

-----------------------------------------------------------------------------
(* Renderers.  st is the part of the state a renderer works on:            *)
(* [slides, log, trace, err]; the result is st after the call, err being   *)
(* the exception the call raised, if any.                                  *)

Called(st, fn) == [st EXCEPT !.trace = Append(@, fn)]

Raise(st, fn, e) == [st EXCEPT !.log = Append(@, LogError(fn, e)), !.err = e]

Done(st, fn) == [st EXCEPT !.log = Append(@, LogInfo(fn))]

\* slide.shapes.title.text = title
TitleSet(st, title) == [st EXCEPT !.slides = SetTitle(@, title)]

generate_title_slide(st0, title, content) ==
    LET st == Called(st0, "generate_title_slide")
        s1 == [st EXCEPT !.slides = add_slide(@, 0, "generate_title_slide")]
    IN  IF title = Number
        THEN Raise(s1, "generate_title_slide", Exc("TypeError", "generate_title_slide"))
        ELSE Done([s1 EXCEPT !.slides = SetPlaceholderText(SetTitle(@, title), content)],
                  "generate_title_slide")

generate_text_slide(st0, title, content) ==
    LET st == Called(st0, "generate_text_slide")
        s1 == [st EXCEPT !.slides = add_slide(@, 1, "generate_text_slide")]
    IN  IF title = Number
        THEN Raise(s1, "generate_text_slide", Exc("TypeError", "generate_text_slide"))
        ELSE Done([s1 EXCEPT !.slides = SetPlaceholderText(SetTitle(@, title), content)],
                  "generate_text_slide")

ItemWellFormed(item) == item.isdict /\ item.hasLevel /\ item.hasText

RECURSIVE AppendItems_checkingLate(_, _)
AppendItems_checkingLate(ss, items) ==
    IF items = <<>> THEN [slides |-> ss, err |-> NoError]
    ELSE LET item == Head(items)
             s1 == add_paragraph(ss, item.text, item.level)
         IN  IF ~ItemWellFormed(item)
             THEN [slides |-> s1, err |-> Exc("ValueError", "generate_list_slide")]
             ELSE AppendItems_checkingLate(s1, Tail(items))

\* the for loop of generate_list_slide: [slides, err] after it
RECURSIVE AppendItems(_, _)
AppendItems(ss, items) ==
    IF items = <<>> THEN [slides |-> ss, err |-> NoError]
    ELSE LET item == Head(items)
         IN  IF ~ItemWellFormed(item)
             THEN [slides |-> ss, err |-> Exc("ValueError", "generate_list_slide")]
             ELSE AppendItems(add_paragraph(ss, item.text, item.level), Tail(items))

generate_list_slide(st0, title, items) ==
    LET st == Called(st0, "generate_list_slide")
        s1 == [st EXCEPT !.slides = add_slide(@, 1, "generate_list_slide")]
        r  == AppendItems(SetTitle(s1.slides, title), items)
    IN  IF title = Number
        \* a TypeError is not among (ValueError, IndexError, KeyError): not logged here
        THEN [s1 EXCEPT !.err = Exc("TypeError", "generate_list_slide")]
        ELSE IF r.err # NoError
        THEN Raise([s1 EXCEPT !.slides = r.slides], "generate_list_slide", r.err)
        ELSE Done([s1 EXCEPT !.slides = r.slides], "generate_list_slide")

AddPicture(ss, image) ==
    [ss EXCEPT ![Len(ss)].pictures =
        Append(@, [left |-> Center(SlideWidth, image.width),
                   top |-> Center(SlideHeight, image.height),
                   width |-> image.width,
                   height |-> image.height])]

generate_picture_slide(st0, title, image, log_picture) ==
    LET st == Called(st0, "generate_picture_slide")
        s1 == [st EXCEPT !.slides = add_slide(@, 5, "generate_picture_slide")]
        s2 == TitleSet(s1, title)
        s3 == [s2 EXCEPT !.slides = AddPicture(@, image)]
    IN  IF title = Number
        THEN Raise(s1, "generate_picture_slide", Exc("TypeError", "generate_picture_slide"))
        ELSE IF image.state # "image"
        THEN Raise(s2, "generate_picture_slide", Exc("OSError", "generate_picture_slide"))
        ELSE IF log_picture THEN Done(s3, "generate_picture_slide") ELSE s3

read_data_from_dat_file(st0, sample) ==
    LET st == Called(st0, "read_data_from_dat_file")
    IN  IF sample # "ok"
        THEN Raise(st, "read_data_from_dat_file", Exc("OSError", "read_data_from_dat_file"))
        ELSE st

generate_plot_slide_ownSlide(st0, title, hasLabels) ==
    LET st == Called(st0, "generate_plot_slide")
        s0 == [st EXCEPT !.slides = add_slide(@, 5, "generate_plot_slide")]
        r  == generate_picture_slide(s0, title, PlotImage, FALSE)
    IN  IF ~hasLabels
        THEN Raise(st, "generate_plot_slide", Exc("KeyError", "generate_plot_slide"))
        ELSE IF r.err # NoError
        THEN Raise(r, "generate_plot_slide", r.err)
        ELSE Done(r, "generate_plot_slide")

generate_plot_slide_rewrapping(st0, title, hasLabels) ==
    LET st == Called(st0, "generate_plot_slide")
        r  == generate_picture_slide(st, title, PlotImage, FALSE)
    IN  IF ~hasLabels
        THEN Raise(st, "generate_plot_slide", Exc("KeyError", "generate_plot_slide"))
        ELSE IF r.err # NoError
        THEN Raise(r, "generate_plot_slide", Exc("RuntimeError", "generate_plot_slide"))
        ELSE Done(r, "generate_plot_slide")

generate_plot_slide(st0, title, hasLabels) ==
    LET st == Called(st0, "generate_plot_slide")
        r  == generate_picture_slide(st, title, PlotImage, FALSE)
    IN  IF ~hasLabels
        THEN Raise(st, "generate_plot_slide", Exc("KeyError", "generate_plot_slide"))
        ELSE IF r.err # NoError
        THEN Raise(r, "generate_plot_slide", r.err)
        ELSE Done(r, "generate_plot_slide")

-----------------------------------------------------------------------------
(* Argument parsing *)

validate_json_file_eitherCheck(file_path, isfile) ==
    IF ~endswith(lower(file_path), DotJson) /\ ~isfile
    THEN [ok |-> FALSE, value |-> <<>>]
    ELSE [ok |-> TRUE, value |-> file_path]

\* the argparse type of the positional argument: the value it returns, or
\* ok = FALSE when it raises ArgumentTypeError
validate_json_file(file_path, isfile) ==
    IF ~endswith(lower(file_path), DotJson) \/ ~isfile
    THEN [ok |-> FALSE, value |-> <<>>]
    ELSE [ok |-> TRUE, value |-> file_path]

-----------------------------------------------------------------------------
(* State *)

UnreadContent == Cfg("unread", FALSE, <<>>)

NoResult == [pc |-> "none", slides |-> <<>>, err |-> NoError, output |-> <<>>]

Terminal == {"exit0", "exit1", "exit2"}

St == [slides |-> slides, log |-> log, trace |-> trace, err |-> err]

Init ==
    /\ argv \in {<<>>} \cup { <<p>> : p \in Paths }
    /\ env \in { [isfile |-> f, content |-> UnreadContent, picture |-> UnreadImage,
                  sample |-> "unread"] : f \in BOOLEAN }
    /\ run = 1
    /\ pc = "main"
    /\ config_file = <<>>
    /\ config = NoConfig
    /\ next = 1
    /\ slides = <<>>
    /\ err = NoError
    /\ log = <<>>
    /\ trace = <<>>
    /\ outputFile = [writes |-> 0, slides |-> <<>>]
    /\ firstRun = NoResult

\* main: parse_args (an argument error exits with status 2), then the call
\* of generate_presentation
Main ==
    /\ pc = "main"
    /\ IF argv = <<>>
       THEN /\ pc' = "exit2"
            /\ err' = Exc("ArgumentError", "parse_args")
            /\ UNCHANGED <<config_file, log, trace>>
       ELSE LET v == validate_json_file(argv[1], env.isfile)
                e == Exc("ArgumentTypeError", "validate_json_file")
            IN  IF v.ok
                THEN /\ pc' = "load"
                     /\ config_file' = v.value
                     /\ trace' = <<"validate_json_file", "generate_presentation">>
                     /\ UNCHANGED <<err, log>>
                ELSE /\ pc' = "exit2"
                     /\ err' = e
                     /\ log' = log \o <<LogError("validate_json_file", e),
                                        LogError("validate_json_file", e)>>
                     /\ trace' = <<"validate_json_file">>
                     /\ UNCHANGED config_file
    /\ UNCHANGED <<argv, env, run, config, next, slides, outputFile, firstRun>>

Load_reopening ==
    /\ pc = "load"
    /\ \E c \in ReadContent :
        /\ env' = [env EXCEPT !.content = c]
        /\ IF c.kind = "notjson"
           THEN /\ err' = Exc("JSONDecodeError", "generate_presentation")
                /\ pc' = "except"
                /\ UNCHANGED <<config, slides>>
           ELSE /\ config' = c
                /\ slides' = outputFile.slides
                /\ pc' = "for"
                /\ UNCHANGED err
    /\ UNCHANGED <<argv, run, config_file, next, log, trace, outputFile, firstRun>>

\* open(config_file), json.load(f), presentation = Presentation()
Load ==
    /\ pc = "load"
    /\ \E c \in ReadContent :
        /\ env' = [env EXCEPT !.content = c]
        /\ IF c.kind = "notjson"
           THEN /\ err' = Exc("JSONDecodeError", "generate_presentation")
                /\ pc' = "except"
                /\ UNCHANGED <<config, slides>>
           ELSE /\ config' = c
                /\ slides' = <<>>
                /\ pc' = "for"
                /\ UNCHANGED err
    /\ UNCHANGED <<argv, run, config_file, next, log, trace, outputFile, firstRun>>

ForInit_defaulting ==
    /\ pc = "for"
    /\ IF config.kind # "object"
       THEN /\ err' = Exc("TypeError", "generate_presentation")
            /\ pc' = "except"
            /\ UNCHANGED next
       ELSE /\ pc' = "loop"
            /\ next' = 1
            /\ UNCHANGED err
    /\ UNCHANGED <<argv, env, run, config_file, config, slides, log, trace, outputFile,
                   firstRun>>

\* for slide_config in config["presentation"]: the subscript is evaluated once
ForInit ==
    /\ pc = "for"
    /\ IF config.kind # "object"
       THEN /\ err' = Exc("TypeError", "generate_presentation")
            /\ pc' = "except"
            /\ UNCHANGED next
       ELSE IF ~config.hasKey
       THEN /\ err' = Exc("KeyError", "generate_presentation")
            /\ pc' = "except"
            /\ UNCHANGED next
       ELSE /\ pc' = "loop"
            /\ next' = 1
            /\ UNCHANGED err
    /\ UNCHANGED <<argv, env, run, config_file, config, slides, log, trace, outputFile,
                   firstRun>>

-----------------------------------------------------------------------------
(* The loop body: one action per branch of the dispatch *)

InLoop == pc = "loop" /\ next <= Len(config.presentation)

slide_config == config.presentation[next]

HasKeys(d) == d.type # Missing /\ d.title # Missing

\* the state after a renderer returned st: the loop goes on, or the
\* exception reaches the handler of generate_presentation
Continue(st) ==
    /\ slides' = st.slides
    /\ log' = st.log
    /\ trace' = st.trace
    /\ err' = st.err
    /\ IF st.err = NoError
       THEN pc' = "loop" /\ next' = next + 1
       ELSE pc' = "except" /\ UNCHANGED next

\* slide_config["type"], slide_config["title"]
DispatchKeyError ==
    /\ InLoop
    /\ ~HasKeys(slide_config)
    /\ err' = Exc("KeyError", "generate_presentation")
    /\ pc' = "except"
    /\ UNCHANGED <<argv, env, run, config_file, config, next, slides, log, trace,
                   outputFile, firstRun>>

DispatchTitle ==
    /\ InLoop
    /\ HasKeys(slide_config)
    /\ slide_config.type = "title"
    /\ Continue(generate_title_slide(St, slide_config.title, "S"))
    /\ UNCHANGED <<argv, env, run, config_file, config, outputFile, firstRun>>

DispatchText ==
    /\ InLoop
    /\ HasKeys(slide_config)
    /\ slide_config.type = "text"
    /\ Continue(generate_text_slide(St, slide_config.title, "S"))
    /\ UNCHANGED <<argv, env, run, config_file, config, outputFile, firstRun>>

DispatchList ==
    /\ InLoop
    /\ HasKeys(slide_config)
    /\ slide_config.type = "list"
    /\ Continue(generate_list_slide(St, slide_config.title, slide_config.items))
    /\ UNCHANGED <<argv, env, run, config_file, config, outputFile, firstRun>>

DispatchPicture ==
    /\ InLoop
    /\ HasKeys(slide_config)
    /\ slide_config.type = "picture"
    /\ \E image \in ReadPicture :
        /\ env' = [env EXCEPT !.picture = image]
        /\ Continue(generate_picture_slide(St, slide_config.title, image, TRUE))
    /\ UNCHANGED <<argv, run, config_file, config, outputFile, firstRun>>

DispatchPlot ==
    /\ InLoop
    /\ HasKeys(slide_config)
    /\ slide_config.type = "plot"
    /\ \E sample \in ReadSample :
        LET r == read_data_from_dat_file(St, sample)
        IN  /\ env' = [env EXCEPT !.sample = sample]
            /\ IF r.err # NoError
               THEN Continue(r)
               ELSE Continue(generate_plot_slide(r, slide_config.title,
                                                 slide_config.hasLabels))
    /\ UNCHANGED <<argv, run, config_file, config, outputFile, firstRun>>

Recognized == {"title", "text", "list", "picture", "plot"}

DispatchInvalid_skipping ==
    /\ InLoop
    /\ HasKeys(slide_config)
    /\ slide_config.type \notin Recognized
    /\ next' = next + 1
    /\ UNCHANGED <<argv, env, run, pc, config_file, config, slides, err, log, trace,
                   outputFile, firstRun>>

\* else: raise ValueError(f"Invalid slide type: {slide_type}")
DispatchInvalid ==
    /\ InLoop
    /\ HasKeys(slide_config)
    /\ slide_config.type \notin Recognized
    /\ err' = Exc("ValueError", "generate_presentation")
    /\ pc' = "except"
    /\ UNCHANGED <<argv, env, run, config_file, config, next, slides, log, trace,
                   outputFile, firstRun>>

\* presentation.save("output.pptx") after the loop
Save ==
    /\ pc = "loop"
    /\ next > Len(config.presentation)
    /\ outputFile' = [writes |-> outputFile.writes + 1, slides |-> slides]
    /\ trace' = Append(trace, "save")
    /\ log' = Append(log, LogInfo("generate_presentation"))
    /\ pc' = "exit0"
    /\ UNCHANGED <<argv, env, run, config_file, config, next, slides, err, firstRun>>

ExceptHandler_saving ==
    /\ pc = "except"
    /\ log' = Append(log, LogError("generate_presentation", err))
    /\ outputFile' = [writes |-> outputFile.writes + 1, slides |-> slides]
    /\ trace' = Append(trace, "save")
    /\ pc' = "exit1"
    /\ UNCHANGED <<argv, env, run, config_file, config, next, slides, err, firstRun>>

\* except (...) as e: logging.error(...); raise e   -- the process ends
ExceptHandler ==
    /\ pc = "except"
    /\ log' = Append(log, LogError("generate_presentation", err))
    /\ pc' = "exit1"
    /\ UNCHANGED <<argv, env, run, config_file, config, next, slides, err, trace,
                   outputFile, firstRun>>

\* the program is started again with the same command line and files
RunAgain ==
    /\ pc \in Terminal
    /\ run = 1
    /\ firstRun' = [pc |-> pc, slides |-> slides, err |-> err,
                    output |-> outputFile.slides]
    /\ run' = 2
    /\ pc' = "main"
    /\ config_file' = <<>>
    /\ config' = NoConfig
    /\ next' = 1
    /\ slides' = <<>>
    /\ err' = NoError
    /\ trace' = <<>>
    /\ UNCHANGED <<argv, env, log, outputFile>>

Next ==
    \/ Main
    \/ Load
    \/ ForInit
    \/ DispatchKeyError
    \/ DispatchTitle
    \/ DispatchText
    \/ DispatchList
    \/ DispatchPicture
    \/ DispatchPlot
    \/ DispatchInvalid
    \/ Save
    \/ ExceptHandler
    \/ RunAgain

Spec == Init /\ [][Next]_vars

-----------------------------------------------------------------------------
(* Properties *)

Descs == config.presentation

RecognizedTypes == {"title", "text", "list", "picture", "plot"}

Saved == \E k \in 1..Len(trace) : trace[k] = "save"

Calls(fn) == Cardinality({k \in 1..Len(trace) : trace[k] = fn})

AtSave == pc = "loop" /\ next > Len(Descs)

\* the slide a descriptor of a recognized type renders to
RenderedBy(s, d) ==
    CASE d.type = "title" ->
            s.layout = 0 /\ s.by = "generate_title_slide" /\ s.pictures = <<>>
      [] d.type = "text" ->
            s.layout = 1 /\ s.by = "generate_text_slide" /\ Len(s.body) = 1
      [] d.type = "list" ->
            s.layout = 1 /\ s.by = "generate_list_slide" /\ s.pictures = <<>>
      [] d.type = "picture" ->
            /\ s.layout = 5 /\ s.by = "generate_picture_slide"
            /\ Len(s.pictures) = 1
            /\ s.pictures[1].width = env.picture.width
            /\ s.pictures[1].height = env.picture.height
      [] d.type = "plot" ->
            /\ s.layout = 5 /\ s.by = "generate_picture_slide"
            /\ Len(s.pictures) = 1
            /\ s.pictures[1].width = PlotImageWidth
            /\ s.pictures[1].height = PlotImageHeight
      [] OTHER -> FALSE

\* C1: while the loop runs, and when the save step is reached, the presentation
\* holds one slide per descriptor handled so far, the i-th slide rendered by the
\* renderer the i-th descriptor's type selects (a plot descriptor yields one
\* picture slide); at the save step that is one slide per descriptor of the list.
C1_OneSlidePerDescriptorInOrder ==
    (pc \in {"loop", "exit0"}) =>
        /\ Len(slides) = next - 1
        /\ \A i \in 1..Len(slides) : RenderedBy(slides[i], Descs[i])
        /\ (AtSave \/ pc = "exit0") => Len(slides) = Len(Descs)

C1_Witness ==
    /\ AtSave
    /\ Len(slides) = 2
    /\ Descs[1].type = "plot"
    /\ Descs[2].type = "list"

Rank(p) ==
    CASE p = "main" -> 0
      [] p = "load" -> 1
      [] p = "for" -> 2
      [] p = "loop" -> 3
      [] p = "except" -> 4
      [] OTHER -> 5

\* C2: output.pptx is written at most once in a run, only by the save step after
\* every descriptor was rendered without an exception; a run in which an exception
\* was raised never saves and leaves the file untouched; within a run the process
\* only moves forward: Load -> Dispatch (descriptors in order) -> Save.
C2_SaveOnlyAfterAllSlides ==
    [][ /\ (outputFile' # outputFile \/ Calls("save")' > Calls("save")) =>
            /\ AtSave
            /\ err = NoError
            /\ ~Saved
            /\ Len(slides) = Len(Descs)
            /\ pc' = "exit0"
            /\ Calls("save")' = 1
            /\ outputFile'.slides = slides
        /\ (pc' \in {"except", "exit1", "exit2"}) =>
            /\ outputFile' = outputFile
            /\ ~Saved'
        /\ (run' = run) =>
            \/ Rank(pc') > Rank(pc)
            \/ pc = "loop" /\ pc' = "loop" /\ next' = next + 1
      ]_vars

C2_Witness ==
    /\ pc = "exit1"
    /\ Len(slides) = 2
    /\ outputFile.writes = 0
    /\ ~Saved

AllWellFormed(items) ==
    \A j \in 1..Len(items) : items[j].isdict /\ items[j].hasLevel /\ items[j].hasText

\* C5: a list descriptor with n well-formed items renders to a slide whose body
\* has exactly n paragraphs, the k-th with the k-th item's text and level.
C5_ListBodyOneParagraphPerItem ==
    \A i \in 1..Len(slides) :
        (pc \in {"loop", "exit0"} /\ Descs[i].type = "list" /\ AllWellFormed(Descs[i].items)) =>
            /\ Len(slides[i].body) = Len(Descs[i].items)
            /\ \A k \in 1..Len(Descs[i].items) :
                /\ slides[i].body[k].text = Descs[i].items[k].text
                /\ slides[i].body[k].level = Descs[i].items[k].level

\* C6: every picture placed on a slide (picture and plot slides) has
\* left = floor((slide_width - picture_width) / 2) and
\* top = floor((slide_height - picture_height) / 2), also when the picture is
\* larger than the slide; a 4000000 x 3000000 picture is put at (2572000, 1929000).
C6_PictureCentredFloor ==
    \A i \in 1..Len(slides) : \A j \in 1..Len(slides[i].pictures) :
        LET pic == slides[i].pictures[j]
        IN  /\ 2 * pic.left <= SlideWidth - pic.width
            /\ SlideWidth - pic.width < 2 * pic.left + 2
            /\ 2 * pic.top <= SlideHeight - pic.height
            /\ SlideHeight - pic.height < 2 * pic.top + 2
            /\ (pic.width = 4000000 /\ pic.height = 3000000) =>
                    (pic.left = 2572000 /\ pic.top = 1929000)

C6_Witness ==
    \E i \in 1..Len(slides) : \E j \in 1..Len(slides[i].pictures) :
        /\ slides[i].pictures[j].width = SlideWidth + 1
        /\ slides[i].pictures[j].left = 0 - 1
        /\ slides[i].by = "generate_picture_slide"

FirstMalformed(items) ==
    IF AllWellFormed(items) THEN 0
    ELSE CHOOSE j \in 1..Len(items) :
            /\ ~(items[j].isdict /\ items[j].hasLevel /\ items[j].hasText)
            /\ AllWellFormed(SubSeq(items, 1, j - 1))

EndsInDotJsonAnyCase(p) ==
    /\ Len(p) >= 5
    /\ p[Len(p) - 4] = "."
    /\ p[Len(p) - 3] \in {"j", "J"}
    /\ p[Len(p) - 2] \in {"s", "S"}
    /\ p[Len(p) - 1] \in {"o", "O"}
    /\ p[Len(p)] \in {"n", "N"}

\* C8: the argument is accepted exactly when it names an existing file and ends
\* in .json in any letter case; a rejected argument is an argument error raised
\* while parsing, after which generate_presentation is never called, nothing is
\* loaded or rendered and output.pptx is not written; an accepted path is passed
\* on unchanged and generate_presentation is called exactly once.
C8_ArgumentValidation ==
    (pc # "main") =>
        IF argv # <<>> /\ env.isfile /\ EndsInDotJsonAnyCase(argv[1])
        THEN /\ pc # "exit2"
             /\ config_file = argv[1]
             /\ Calls("generate_presentation") = 1
             /\ Calls("validate_json_file") = 1
        ELSE /\ pc = "exit2"
             /\ argv # <<>> => err = Exc("ArgumentTypeError", "validate_json_file")
             /\ Calls("generate_presentation") = 0
             /\ config = NoConfig
             /\ env.content = UnreadContent
             /\ slides = <<>>
             /\ ~Saved
             /\ outputFile.writes = 0

C8_Witness ==
    /\ pc = "exit2"
    /\ argv # <<>>
    /\ env.isfile
    /\ Len(log) > 0

ErrorLines == {k \in 1..Len(log) : log[k].level = "ERROR"}

\* C9: an exception raised in generate_presentation or below it is never
\* swallowed: the loop does not continue and the run does not save; it reaches
\* the top level as the error that was raised, every handler it passed through
\* having logged that same error, and generate_presentation logs it as an ERROR
\* (its last log line) before the process ends.
C9_ErrorsLoggedAndReraised ==
    /\ (err # NoError) => pc \in {"except", "exit1", "exit2"}
    /\ (pc \in {"except", "exit1"}) =>
        /\ err # NoError
        /\ err.origin \in {trace[k] : k \in 1..Len(trace)}
        /\ ~Saved
        /\ \A k \in ErrorLines : log[k].e = err
    /\ (pc = "exit1") =>
        /\ log # <<>>
        /\ log[Len(log)] = LogError("generate_presentation", err)

C9_Witness ==
    /\ pc = "exit1"
    /\ err = Exc("TypeError", "generate_picture_slide")
    /\ Calls("generate_plot_slide") = 1
    /\ \E k \in ErrorLines : log[k].fn = "generate_plot_slide"
    /\ \E k \in ErrorLines : log[k].fn = "generate_picture_slide"

\* C10: every run starts from an empty presentation, and a second run on the same
\* configuration and files ends as the first did: the same slides in the same
\* order (or the same error), and the file it saves holds what the first saved.
C10_RunsAgree ==
    /\ (pc = "for") => slides = <<>>
    /\ (run = 2 /\ pc \in Terminal) =>
        /\ firstRun.pc = pc
        /\ firstRun.slides = slides
        /\ firstRun.err = err
        /\ (pc = "exit0") => outputFile.slides = firstRun.output

C10_Witness ==
    /\ run = 2
    /\ pc = "exit0"
    /\ Len(slides) = 2
    /\ slides[1].by # slides[2].by
    /\ outputFile.writes = 2

====
